---- MODULE Spec2Model ----
(***************************************************************************)
(* OpalForge certificate worker (src/src/index.ts): the request router and *)
(* the create / verify / exists / render handlers over the D1 Store         *)
(* (table certificates) and the KV Cache.  Every await on the Store or the *)
(* Cache is a suspension point, so each handler is a sequence of atomic     *)
(* steps that interleave with the steps of the other requests.              *)
(***************************************************************************)
EXTENDS Integers, Sequences, FiniteSets, TLC

\* ---------------------------------------------------------------- bounds
MaxReq == 2         \* requests issued in one behaviour
MaxClock == 1       \* new Date() returns an instant in 0 .. MaxClock
Scale == 1000       \* a confidence c is the number c / Scale (three decimals)
MaxConfidence == 100  \* confidences rendered range over 0 .. MaxConfidence

\* ---------------------------------------------------------------- inputs
CertIds == {"A"}
CallerTimestamp == MaxClock + 10      \* a caller-supplied issuance instant
Confidences == {0, 91}

Restrict(f, S) == [x \in S |-> f[x]]

\* JSON bodies of POST /certificate: objects with any subset of the fields
FullBodies ==
    [certId : CertIds \cup {""}, confidence : Confidences,
     timestamp : {CallerTimestamp}]
BodyShapes ==
    {{"certId", "confidence"}, {"certId", "confidence", "timestamp"},
     {"certId"}, {"confidence"}}
Bodies == { Restrict(b, S) : b \in FullBodies, S \in BodyShapes }

NoBody == <<>>

\* query strings of GET /certificate/:id/pdf
Queries ==
    { Restrict([confidence |-> 85 * Scale], S) : S \in SUBSET {"confidence"} }

Requests ==
    [op : {"create"}, parsable : {TRUE}, data : Bodies]
      \cup {[op |-> "create", parsable |-> FALSE, data |-> NoBody]}
      \cup [op : {"verify", "exists"}, certId : CertIds]
      \cup [op : {"render"}, certId : CertIds, query : Queries]

Reqs == 1 .. MaxReq

\* instants new Date() can return; a later call never returns an earlier one
Instants == 0 .. MaxClock

\* ---------------------------------------------------------------- state
VARIABLES
    store,      \* table certificates: sequence of rows, id = position
    kv,         \* KV namespace: key -> <<>> (absent) or <<value>>
    nreq,       \* number of requests received so far
    req,        \* request r as received by fetch
    pc,         \* position of the handler of request r
    local,      \* handler locals: cached, result
    resp,       \* Response of request r: status and body
    obs,        \* per-request record of the Store/Cache calls made
    warm        \* a cold verify of X returned 200 and cert:X has not expired

vars == <<store, kv, nreq, req, pc, local, resp, obs, warm>>

\* ---------------------------------------------------------------- helpers
CacheKey(prefix, certId) == <<prefix, certId>>
Keys == { CacheKey(p, c) : p \in {"cert", "pdf"}, c \in CertIds }

VerifyUrl(certId) == <<"https://opalforge.tech/?verify=", certId>>

Has(data, f) == f \in DOMAIN data

\* the rows of the table whose cert_id is certId
RowsFor(rows, certId) ==
    { i \in 1 .. Len(rows) : rows[i].cert_id = certId }

\* cert_id TEXT UNIQUE NOT NULL
UniqueViolation(rows, certId) == RowsFor(rows, certId) # {}

\* SELECT cert_id as certId, confidence, timestamp, status ... .first()
Project(row) ==
    [certId |-> row.cert_id, confidence |-> row.confidence,
     timestamp |-> row.timestamp, status |-> row.status]

SelectFirst(rows, certId) ==
    IF RowsFor(rows, certId) = {} THEN <<>>
    ELSE LET i == CHOOSE j \in RowsFor(rows, certId) :
                      \A k \in RowsFor(rows, certId) : j <= k
         IN <<Project(rows[i])>>

\* SELECT 1 FROM certificates WHERE cert_id = ? ... .first()
SelectOne(rows, certId) ==
    IF RowsFor(rows, certId) = {} THEN <<>> ELSE <<[one |-> 1]>>

\* the validation written with !data.confidence: a confidence of 0 is rejected
MissingRequiredFieldsFalsy(data) ==
    \/ ~Has(data, "certId")
    \/ data.certId = ""
    \/ ~Has(data, "confidence")
    \/ data.confidence = 0

\* !data.certId || data.confidence === undefined
MissingRequiredFields(data) ==
    \/ ~Has(data, "certId")
    \/ data.certId = ""
    \/ ~Has(data, "confidence")

\* data.timestamp || new Date().toISOString()
TimestampOf(data, clock) ==
    IF Has(data, "timestamp") THEN data.timestamp ELSE clock

\* data.qrPayload || `https://opalforge.tech/?verify=${data.certId}`
PayloadOf(data) ==
    IF Has(data, "qrPayload") THEN data.qrPayload ELSE VerifyUrl(data.certId)

\* the row INSERT INTO certificates ... VALUES (?, ?, ?, ?, ?) adds
NewRow(id, data, clock) ==
    [id |-> id, cert_id |-> data.certId, confidence |-> data.confidence,
     timestamp |-> TimestampOf(data, clock), qr_payload |-> PayloadOf(data),
     status |-> "active"]

\* the projection handleCreateCertificate writes to the Cache
CacheProjection(data, clock) ==
    [certId |-> data.certId, confidence |-> data.confidence,
     timestamp |-> TimestampOf(data, clock), status |-> "active"]

\* url.searchParams.get('qrData') || `https://opalforge.tech/?verify=${certId}`
QrDataOf(request) ==
    IF Has(request.query, "qrData") THEN request.query.qrData
    ELSE VerifyUrl(request.certId)

\* parseFloat(url.searchParams.get('confidence') || '0')
ConfidenceOf(request) ==
    IF Has(request.query, "confidence") THEN request.query.confidence ELSE 0

\* doc.setTextColor of the score
Green == <<34, 197, 94>>
Yellow == <<234, 179, 8>>
Red == <<239, 68, 68>>

\* the bands compared with > instead of >=: a boundary value falls lower
TextColorStrict(confidence) ==
    IF confidence > 85 * Scale THEN Green
    ELSE IF confidence > 50 * Scale THEN Yellow
    ELSE Red

\* if (confidence >= 85) ... else if (confidence >= 50) ... else ...
TextColor(confidence) ==
    IF confidence >= 85 * Scale THEN Green
    ELSE IF confidence >= 50 * Scale THEN Yellow
    ELSE Red

\* doc.output("arraybuffer"): the document as the arguments determine it
RenderDoc(request) ==
    [pdf |-> request.certId, qrData |-> QrDataOf(request),
     confidence |-> ConfidenceOf(request),
     color |-> TextColor(ConfidenceOf(request))]

Response(status, body) == [status |-> status, body |-> body]
NoResponse == Response(0, <<>>)
\* the catch of fetch: every exception a handler lets escape
InternalServerError == Response(500, <<[error |-> "Internal Server Error"]>>)

\* readAt: the latest instant new Date() returned to the handler
NoLocal == [cached |-> <<>>, result |-> <<>>, readAt |-> 0]
\* what a test double of the Store and the Cache records for a request:
\* Store calls, Cache puts attempted, the outcome of the insert, the call
\* that threw, and whether cert:X was warm when the Cache was read
NoObs == [storeCalls |-> 0, cachePuts |-> 0, insert |-> "none",
          threw |-> "none", sawWarm |-> FALSE]

\* the handler the router selects, as the first step of the request
Route(request) ==
    CASE request.op = "create" -> "c_json"
      [] request.op = "verify" -> "v_get"
      [] request.op = "exists" -> "e_get"
      [] request.op = "render" -> "r_put"

Finish(r, response) ==
    /\ pc' = [pc EXCEPT ![r] = "done"]
    /\ resp' = [resp EXCEPT ![r] = response]

Throw(r, what) ==
    /\ Finish(r, InternalServerError)
    /\ obs' = [obs EXCEPT ![r].threw = what,
                          ![r].cachePuts = IF what = "kvput" THEN @ + 1 ELSE @]

\* the instants new Date() can return to handler r at its next read; the
\* right operand of || is evaluated only when data.timestamp is missing
NewDate(r, data) ==
    IF Has(data, "timestamp") THEN {local[r].readAt}
    ELSE { t \in Instants : t >= local[r].readAt }

\* ---------------------------------------------------------------- Init
\* the table is durable: a deployment starts on an empty table or on rows
\* that earlier creates persisted, with a Cache whose entries have expired
PersistedStores ==
    {<<>>} \cup { <<NewRow(1, b, 0)>> :
                    b \in { d \in Bodies : /\ ~MissingRequiredFields(d)
                                            /\ Has(d, "timestamp") } }

Init ==
    /\ store \in PersistedStores
    /\ kv = [k \in Keys |-> <<>>]
    /\ nreq = 0
    /\ req = [r \in Reqs |-> [op |-> "none"]]
    /\ pc = [r \in Reqs |-> "idle"]
    /\ local = [r \in Reqs |-> NoLocal]
    /\ resp = [r \in Reqs |-> NoResponse]
    /\ obs = [r \in Reqs |-> NoObs]
    /\ warm = [c \in CertIds |-> FALSE]

\* ---------------------------------------------------------------- fetch
Receive(r) ==
    /\ nreq < MaxReq
    /\ r = nreq + 1
    /\ \E request \in Requests :
         /\ req' = [req EXCEPT ![r] = request]
         /\ pc' = [pc EXCEPT ![r] = Route(request)]
    /\ nreq' = r
    /\ UNCHANGED <<store, kv, local, resp, obs, warm>>

\* ------------------------------------------- handleCreateCertificate
\* the handler with the Cache written before the durable write
CreateJsonCachesFirst(r) ==
    /\ pc[r] = "c_json"
    /\ IF ~req[r].parsable
         THEN Throw(r, "json") /\ UNCHANGED kv
         ELSE IF MissingRequiredFields(req[r].data)
           THEN /\ Finish(r, Response(400,
                     <<[error |-> "Missing required fields: certId, confidence"]>>))
                /\ UNCHANGED <<obs, kv>>
           ELSE /\ pc' = [pc EXCEPT ![r] = "c_insert"]
                /\ kv' = [kv EXCEPT ![CacheKey("cert", req[r].data.certId)] =
                                  <<CacheProjection(req[r].data, 0)>>]
                /\ UNCHANGED <<resp, obs>>
    /\ UNCHANGED <<store, nreq, req, local, warm>>

\* await request.json(), then the validation of the required fields
CreateJson(r) ==
    /\ pc[r] = "c_json"
    /\ IF ~req[r].parsable
         THEN Throw(r, "json")
         ELSE IF MissingRequiredFields(req[r].data)
           THEN /\ Finish(r, Response(400,
                     <<[error |-> "Missing required fields: certId, confidence"]>>))
                /\ UNCHANGED obs
           ELSE /\ pc' = [pc EXCEPT ![r] = "c_insert"]
                /\ UNCHANGED <<resp, obs>>
    /\ UNCHANGED <<store, kv, nreq, req, local, warm>>

\* the insert with its failure swallowed: the handler goes on to the Cache
CreateInsertSwallowsError(r) ==
    /\ pc[r] = "c_insert"
    /\ LET data == req[r].data IN
       \/ /\ pc' = [pc EXCEPT ![r] = "c_put"]
          /\ obs' = [obs EXCEPT ![r].insert = "error", ![r].storeCalls = @ + 1]
          /\ UNCHANGED <<store, local, resp>>
       \/ /\ UniqueViolation(store, data.certId)
          /\ Finish(r, Response(409,
                <<[error |-> "Certificate ID already exists"]>>))
          /\ obs' = [obs EXCEPT ![r].insert = "unique",
                                ![r].storeCalls = @ + 1]
          /\ UNCHANGED <<store, local>>
       \/ /\ ~UniqueViolation(store, data.certId)
          /\ \E now \in NewDate(r, data) :
               /\ store' = Append(store, NewRow(Len(store) + 1, data, now))
               /\ local' = [local EXCEPT ![r].readAt = now]
          /\ pc' = [pc EXCEPT ![r] = "c_put"]
          /\ obs' = [obs EXCEPT ![r].insert = "ok", ![r].storeCalls = @ + 1]
          /\ UNCHANGED resp
    /\ UNCHANGED <<kv, nreq, req, warm>>

\* INSERT INTO certificates ... .run()
CreateInsert(r) ==
    /\ pc[r] = "c_insert"
    /\ LET data == req[r].data IN
       \/ \* the Store is unavailable: the error is rethrown
          /\ Finish(r, InternalServerError)
          /\ obs' = [obs EXCEPT ![r].threw = "store", ![r].insert = "error",
                                ![r].storeCalls = @ + 1]
          /\ UNCHANGED <<store, local>>
       \/ /\ UniqueViolation(store, data.certId)
          /\ Finish(r, Response(409,
                <<[error |-> "Certificate ID already exists"]>>))
          /\ obs' = [obs EXCEPT ![r].insert = "unique",
                                ![r].storeCalls = @ + 1]
          /\ UNCHANGED <<store, local>>
       \/ /\ ~UniqueViolation(store, data.certId)
          /\ \E now \in NewDate(r, data) :
               /\ store' = Append(store, NewRow(Len(store) + 1, data, now))
               /\ local' = [local EXCEPT ![r].readAt = now]
          /\ pc' = [pc EXCEPT ![r] = "c_put"]
          /\ obs' = [obs EXCEPT ![r].insert = "ok", ![r].storeCalls = @ + 1]
          /\ UNCHANGED resp
    /\ UNCHANGED <<kv, nreq, req, warm>>

\* env.KV.put(`cert:${data.certId}`, ...) and the 201 response
CreatePut(r) ==
    /\ pc[r] = "c_put"
    /\ LET data == req[r].data IN
       \/ /\ Throw(r, "kvput")
          /\ UNCHANGED <<kv, local>>
       \/ /\ \E now \in NewDate(r, data) :
               /\ kv' = [kv EXCEPT ![CacheKey("cert", data.certId)] =
                                         <<CacheProjection(data, now)>>]
               /\ local' = [local EXCEPT ![r].readAt = now]
          /\ Finish(r, Response(201,
                <<[success |-> TRUE, certId |-> data.certId]>>))
          /\ obs' = [obs EXCEPT ![r].cachePuts = @ + 1]
    /\ UNCHANGED <<store, nreq, req, warm>>

\* ------------------------------------------- handleVerifyCertificate
VerifyGet(r) ==
    /\ pc[r] = "v_get"
    /\ LET cached == kv[CacheKey("cert", req[r].certId)] IN
       \/ /\ Finish(r, InternalServerError)
          /\ obs' = [obs EXCEPT ![r].threw = "kvget",
                                ![r].sawWarm = warm[req[r].certId]]
          /\ UNCHANGED local
       \/ /\ cached # <<>>
          /\ Finish(r, Response(200, cached))
          /\ local' = [local EXCEPT ![r].cached = cached]
          /\ obs' = [obs EXCEPT ![r].sawWarm = warm[req[r].certId]]
       \/ /\ cached = <<>>
          /\ pc' = [pc EXCEPT ![r] = "v_query"]
          /\ obs' = [obs EXCEPT ![r].sawWarm = warm[req[r].certId]]
          /\ UNCHANGED <<resp, local>>
    /\ UNCHANGED <<store, kv, nreq, req, warm>>

VerifyQuery(r) ==
    /\ pc[r] = "v_query"
    /\ LET result == SelectFirst(store, req[r].certId) IN
       \/ /\ Finish(r, InternalServerError)
          /\ obs' = [obs EXCEPT ![r].threw = "store", ![r].storeCalls = @ + 1]
          /\ UNCHANGED local
       \/ /\ result # <<>>
          /\ pc' = [pc EXCEPT ![r] = "v_put"]
          /\ local' = [local EXCEPT ![r].result = result]
          /\ obs' = [obs EXCEPT ![r].storeCalls = @ + 1]
          /\ UNCHANGED resp
       \/ /\ result = <<>>
          /\ Finish(r, Response(404, <<[error |-> "Certificate not found"]>>))
          /\ obs' = [obs EXCEPT ![r].storeCalls = @ + 1]
          /\ UNCHANGED local
    /\ UNCHANGED <<store, kv, nreq, req, warm>>

\* the fallback read answered without the write-back to the Cache
VerifyPutSkipsWrite(r) ==
    /\ pc[r] = "v_put"
    /\ Finish(r, Response(200, local[r].result))
    /\ warm' = [warm EXCEPT ![req[r].certId] = TRUE]
    /\ UNCHANGED <<store, kv, nreq, req, local, obs>>

\* env.KV.put(`cert:${certId}`, JSON.stringify(result), ...) and the 200
VerifyPut(r) ==
    /\ pc[r] = "v_put"
    /\ \/ /\ Throw(r, "kvput")
          /\ UNCHANGED <<kv, warm>>
       \/ /\ kv' = [kv EXCEPT ![CacheKey("cert", req[r].certId)] =
                                    local[r].result]
          /\ Finish(r, Response(200, local[r].result))
          /\ warm' = [warm EXCEPT ![req[r].certId] = TRUE]
          /\ obs' = [obs EXCEPT ![r].cachePuts = @ + 1]
    /\ UNCHANGED <<store, nreq, req, local>>

\* ------------------------------------------- handleCertificateExists
ExistsGet(r) ==
    /\ pc[r] = "e_get"
    /\ LET cached == kv[CacheKey("cert", req[r].certId)] IN
       \/ /\ Throw(r, "kvget")
          /\ UNCHANGED local
       \/ /\ cached # <<>>
          /\ Finish(r, Response(200, <<>>))
          /\ local' = [local EXCEPT ![r].cached = cached]
          /\ UNCHANGED obs
       \/ /\ cached = <<>>
          /\ pc' = [pc EXCEPT ![r] = "e_query"]
          /\ UNCHANGED <<resp, local, obs>>
    /\ UNCHANGED <<store, kv, nreq, req, warm>>

\* SELECT 1 FROM certificates WHERE cert_id = ?  -- no write to the Cache
ExistsQuery(r) ==
    /\ pc[r] = "e_query"
    /\ LET result == SelectOne(store, req[r].certId) IN
       \/ /\ Finish(r, InternalServerError)
          /\ obs' = [obs EXCEPT ![r].threw = "store", ![r].storeCalls = @ + 1]
          /\ UNCHANGED local
       \/ /\ result # <<>>
          /\ Finish(r, Response(200, <<>>))
          /\ local' = [local EXCEPT ![r].result = result]
          /\ obs' = [obs EXCEPT ![r].storeCalls = @ + 1]
       \/ /\ result = <<>>
          /\ Finish(r, Response(404, <<>>))
          /\ obs' = [obs EXCEPT ![r].storeCalls = @ + 1]
          /\ UNCHANGED local
    /\ UNCHANGED <<store, kv, nreq, req, warm>>

\* ------------------------------------------- handleGeneratePDF
\* the document is a function of the arguments; its only effect on the
\* shared state is env.KV.put(`pdf:${certId}`, pdfOutput, ...)
\* the document stored under the cert: prefix instead of pdf:
RenderPutCachesCert(r) ==
    /\ pc[r] = "r_put"
    /\ \/ /\ Throw(r, "kvput")
          /\ UNCHANGED kv
       \/ /\ kv' = [kv EXCEPT ![CacheKey("cert", req[r].certId)] =
                                    <<RenderDoc(req[r])>>]
          /\ Finish(r, Response(200, <<RenderDoc(req[r])>>))
          /\ obs' = [obs EXCEPT ![r].cachePuts = @ + 1]
    /\ UNCHANGED <<store, nreq, req, local, warm>>

RenderPut(r) ==
    /\ pc[r] = "r_put"
    /\ \/ /\ Throw(r, "kvput")
          /\ UNCHANGED kv
       \/ /\ kv' = [kv EXCEPT ![CacheKey("pdf", req[r].certId)] =
                                    <<RenderDoc(req[r])>>]
          /\ Finish(r, Response(200, <<RenderDoc(req[r])>>))
          /\ obs' = [obs EXCEPT ![r].cachePuts = @ + 1]
    /\ UNCHANGED <<store, nreq, req, local, warm>>

\* ------------------------------------------- environment
\* expirationTtl elapses: the Cache drops the entry
Expire(k) ==
    /\ kv[k] # <<>>
    /\ kv' = [kv EXCEPT ![k] = <<>>]
    /\ warm' = IF k[1] = "cert" THEN [warm EXCEPT ![k[2]] = FALSE] ELSE warm
    /\ UNCHANGED <<store, nreq, req, pc, local, resp, obs>>

Next ==
    \/ \E r \in Reqs : Receive(r)
    \/ \E r \in Reqs : CreateJson(r)
    \/ \E r \in Reqs : CreateInsert(r)
    \/ \E r \in Reqs : CreatePut(r)
    \/ \E r \in Reqs : VerifyGet(r)
    \/ \E r \in Reqs : VerifyQuery(r)
    \/ \E r \in Reqs : VerifyPut(r)
    \/ \E r \in Reqs : ExistsGet(r)
    \/ \E r \in Reqs : ExistsQuery(r)
    \/ \E r \in Reqs : RenderPut(r)
    \/ \E k \in Keys : Expire(k)

Spec == Init /\ [][Next]_vars

\* ------------------------------------------- the colour bands alone
\* one GET /certificate/:id/pdf, its confidence drawn from the whole range
ScaledConfidences == 0 .. MaxConfidence * Scale
RenderRequests ==
    [op : {"render"}, certId : CertIds,
     query : {Restrict([confidence |-> 0], {})}
               \cup [confidence : ScaledConfidences]]

InitBand ==
    /\ store = <<>>
    /\ kv = [k \in Keys |-> <<>>]
    /\ nreq = 1
    /\ \E request \in RenderRequests :
         /\ req = [r \in Reqs |-> IF r = 1 THEN request ELSE [op |-> "none"]]
         /\ pc = [r \in Reqs |-> IF r = 1 THEN Route(request) ELSE "idle"]
    /\ local = [r \in Reqs |-> NoLocal]
    /\ resp = [r \in Reqs |-> NoResponse]
    /\ obs = [r \in Reqs |-> NoObs]
    /\ warm = [c \in CertIds |-> FALSE]

NextBand == \E r \in Reqs : RenderPut(r)

SpecBand == InitBand /\ [][NextBand]_vars

\* ---------------------------------------------------------------- properties
Done(r) == pc[r] = "done"
Is(r, op) == req[r].op = op
\* a create whose body parsed and passed the validation
ValidCreate(r) ==
    /\ Is(r, "create")
    /\ req[r].parsable
    /\ ~MissingRequiredFields(req[r].data)
CreatesOf(X) == { r \in Reqs : ValidCreate(r) /\ req[r].data.certId = X }
CertEntry(X) == kv[CacheKey("cert", X)]

\* C1: of two or more create requests for the same certId X that was free,
\* none of which met a Store error, exactly one is answered 201, every other
\* one 409, and the Store ends with exactly one row for X.
C1_ExactlyOneCreated ==
    \A X \in CertIds :
      LET C == CreatesOf(X) IN
        ( /\ Cardinality(C) >= 2
          /\ \A r \in C : Done(r) /\ obs[r].insert # "error"
          /\ \E r \in C : obs[r].insert = "ok" )
        => /\ Cardinality({ r \in C : resp[r].status = 201 }) = 1
           /\ \A r \in C : resp[r].status \in {201, 409}
           /\ Cardinality(RowsFor(store, X)) = 1

\* C2: every verify answered 200 returns the projection of the Store row,
\* and every cert:X Cache entry equals the projection of the Store row of X.
C2_ReadThroughEqualsStore ==
    /\ \A X \in CertIds :
         CertEntry(X) # <<>> => CertEntry(X) = SelectFirst(store, X)
    /\ \A r \in Reqs :
         (Is(r, "verify") /\ Done(r) /\ resp[r].status = 200)
           => resp[r].body = SelectFirst(store, req[r].certId)

\* C3: a Cache put that fails never fails the operation: the create whose
\* insert succeeded is answered 201, the verify that read the Store 200.
C3_CacheWriteFailureSwallowed ==
    \A r \in Reqs :
      (Done(r) /\ obs[r].threw = "kvput")
        => /\ Is(r, "create") => resp[r].status = 201
           /\ Is(r, "verify") => resp[r].status = 200
           /\ resp[r].status # 500

\* C4: a verify or exists whose Cache get throws goes on to the Store and is
\* answered 200 or 404 as the Store decides, never with the Cache error.
C4_CacheReadFailureIsMiss ==
    \A r \in Reqs :
      (Done(r) /\ obs[r].threw = "kvget")
        => /\ obs[r].storeCalls = 1
           /\ resp[r].status \in {200, 404}

\* C5: a create attempts its Cache put only after its Store insert has
\* completed with success; a create whose insert failed (uniqueness conflict
\* or Store error) attempts no Cache put.
C5_InsertBeforeCachePut ==
    \A r \in Reqs :
      Is(r, "create")
        => /\ pc[r] = "c_put" => obs[r].insert = "ok"
           /\ obs[r].cachePuts > 0 => obs[r].insert = "ok"
           /\ obs[r].insert \in {"unique", "error"}
                => Done(r) /\ obs[r].cachePuts = 0
C5_Witness ==
    /\ \E r \in Reqs :
         /\ Is(r, "create") /\ Done(r)
         /\ obs[r].insert \in {"unique", "error"}
         /\ obs[r].cachePuts = 0
    /\ \E r \in Reqs :
         /\ Is(r, "create") /\ Done(r)
         /\ obs[r].insert = "ok"
         /\ obs[r].cachePuts = 1

C8_CacheOnlyFromStore ==
    \A X \in CertIds : CertEntry(X) # <<>> => RowsFor(store, X) # {}
C8_Witness ==
    \E X \in CertIds :
      /\ CertEntry(X) # <<>>
      /\ kv[CacheKey("pdf", X)] # <<>>
      /\ RowsFor(store, X) # {}

\* C9: a create whose body is not parsable JSON is answered 400 and makes no
\* Store call and no Cache put.
C9_UnparsableBodyIs400 ==
    \A r \in Reqs :
      (Is(r, "create") /\ ~req[r].parsable /\ Done(r))
        => /\ resp[r].status = 400
           /\ obs[r].storeCalls = 0
           /\ obs[r].cachePuts = 0

\* C10: exists answers 200 exactly when the Cache or the Store holds the
\* certificate, as verify does, and a cold exists(X) that hit the Store
\* leaves the cert:X Cache entry populated.
C10_ExistsWritesBack ==
    [][ \A r \in Reqs :
          (pc[r] = "e_query" /\ pc'[r] = "done" /\ obs'[r].threw = "none")
            => /\ resp'[r].status = 200 <=> RowsFor(store, req[r].certId) # {}
               /\ resp'[r].status = 200 => CertEntry(req[r].certId)' # <<>>
      ]_vars

\* C11: a verify or exists of a certId that has no row in the Store (it was
\* never created), whose Store query did not fail, is answered 404, exists
\* with an empty body, and leaves no Store row and no Cache entry for it.
C11_NeverCreatedIs404 ==
    \A r \in Reqs :
      ( /\ Is(r, "verify") \/ Is(r, "exists")
        /\ Done(r)
        /\ obs[r].threw # "store"
        /\ RowsFor(store, req[r].certId) = {} )
        => /\ resp[r].status = 404
           /\ Is(r, "exists") => resp[r].body = <<>>
           /\ CertEntry(req[r].certId) = <<>>

\* C12: render selects exactly one colour band: pass (green) when the
\* confidence is >= 85, caution (yellow) when 50 <= confidence < 85, fail
\* (red) when confidence < 50; 85 and 50 belong to the higher band.
RenderedColor(r) == resp[r].body[1].color
C12_ColourBands ==
    \A r \in Reqs :
      (Is(r, "render") /\ Done(r) /\ resp[r].status = 200)
        => LET c == ConfidenceOf(req[r]) IN
           /\ RenderedColor(r) \in {Green, Yellow, Red}
           /\ RenderedColor(r) = Green <=> c >= 85 * Scale
           /\ RenderedColor(r) = Yellow <=> (50 * Scale <= c /\ c < 85 * Scale)
           /\ RenderedColor(r) = Red <=> c < 50 * Scale
           /\ c = 85 * Scale => RenderedColor(r) = Green
           /\ c = 85 * Scale - 1 => RenderedColor(r) = Yellow
           /\ c = 50 * Scale => RenderedColor(r) = Yellow
           /\ c = 50 * Scale - 1 => RenderedColor(r) = Red
C12_Witness ==
    \E r \in Reqs :
      /\ Is(r, "render") /\ Done(r) /\ resp[r].status = 200
      /\ ConfidenceOf(req[r]) = 85 * Scale - 1
      /\ RenderedColor(r) = Yellow

\* what verify and exists answer for X from the present Store and Cache
VerifyOutcome(X) ==
    IF CertEntry(X) # <<>> THEN Response(200, CertEntry(X))
    ELSE IF SelectFirst(store, X) # <<>>
         THEN Response(200, SelectFirst(store, X))
         ELSE Response(404, <<[error |-> "Certificate not found"]>>)
ExistsOutcome(X) ==
    IF CertEntry(X) # <<>> \/ SelectOne(store, X) # <<>> THEN 200 ELSE 404

\* C13: every step of a render request leaves the Store and every cert:<X>
\* entry unchanged and makes no Store call; the only Cache key it may change
\* is pdf:<certId>, which a 200 leaves holding the document; so what verify
\* and exists answer for any X is the same after the step as before it; and
\* the answer is the document of the request alone (or the 500 of a failed
\* Cache write), whether or not the certId has a row.
C13_RenderFrame ==
    [][ \A r \in Reqs :
          (req'[r].op = "render" /\ pc'[r] # pc[r])
            => /\ store' = store
               /\ \A k \in Keys :
                    k # CacheKey("pdf", req'[r].certId) => kv'[k] = kv[k]
               /\ \A X \in CertIds :
                    /\ CertEntry(X)' = CertEntry(X)
                    /\ VerifyOutcome(X)' = VerifyOutcome(X)
                    /\ ExistsOutcome(X)' = ExistsOutcome(X)
               /\ obs'[r].storeCalls = 0
               /\ pc'[r] = "done" =>
                    \/ /\ resp'[r] = Response(200, <<RenderDoc(req'[r])>>)
                       /\ kv'[CacheKey("pdf", req'[r].certId)]
                            = <<RenderDoc(req'[r])>>
                    \/ /\ resp'[r] = InternalServerError
                       /\ obs'[r].threw = "kvput"
                       /\ kv' = kv ]_vars
C13_Witness ==
    \E r \in Reqs :
      /\ Is(r, "render") /\ Done(r) /\ resp[r].status = 200
      /\ RowsFor(store, req[r].certId) = {}
      /\ kv[CacheKey("pdf", req[r].certId)] = <<RenderDoc(req[r])>>
      /\ \E v \in Reqs : Is(v, "verify") /\ Done(v) /\ resp[v].status = 404

====
